---- MODULE Spec2Model ----
(***************************************************************************)
(* pmap.ParallelMap: a map whose Get, Set, Update and custom functions are *)
(* executed one at a time by a backend goroutine that receives closures    *)
(* from the unbuffered channel Op.                                         *)
(***************************************************************************)
EXTENDS Integers, Sequences, FiniteSets, TLC

\* ------------------------------------------------------------- bounds
NCallers == 2
MaxOps == 2
NKeys == 2
MaxVal == 2

Callers == 1..NCallers
Keys == 1..NKeys
Values == 1..MaxVal

\* the zero value of interface{} (nil), what a map index yields for a missing key
Nil == 0

\* ---------------------------------------------------- pure functions
\* faulty variant: the index expression reports every key as present
Lookup_alwaysOk(m, k) == IF k \in DOMAIN m THEN <<m[k], TRUE>> ELSE <<Nil, TRUE>>

\* this.Map[key] as a two-valued index expression: value, ok
Lookup(m, k) == IF k \in DOMAIN m THEN <<m[k], TRUE>> ELSE <<Nil, FALSE>>

\* faulty variant: the assignment stores the key in place of the value
Store_key(m, k, v) == [j \in (DOMAIN m) \cup {k} |-> IF j = k THEN k ELSE m[j]]

\* faulty variant: the assignment replaces the whole map by the one entry
Store_reset(m, k, v) == [j \in {k} |-> v]

\* this.Map[key] = value
Store(m, k, v) == [j \in (DOMAIN m) \cup {k} |-> IF j = k THEN v ELSE m[j]]

\* faulty variant: the default function keeps the old value
DefaultUpdateValueFunc_old(oldValue, newValue) == oldValue

\* the UpdateValueFunc installed by NewParallelMap
DefaultUpdateValueFunc(oldValue, newValue) == newValue

\* the UpdateValueFunc of the test and the examples
AddUpdateValueFunc(oldValue, newValue) == oldValue + newValue

UpdateValueFuncs == {"default", "add"}

\* a call this.UpdateValueFunc(oldValue, value) through the field's current value
CallUpdateValueFunc(g, oldValue, newValue) ==
    IF g = "add" THEN AddUpdateValueFunc(oldValue, newValue)
    ELSE DefaultUpdateValueFunc(oldValue, newValue)

\* faulty variant: Update's closure stores the new value without combining
UpdateStore_lost(m, g, k, v) == Store(m, k, v)

\* faulty variant: Update's closure hands the function its arguments in the wrong order
UpdateStore_swapped(m, g, k, v) ==
    IF Lookup(m, k)[2] THEN Store(m, k, CallUpdateValueFunc(g, v, Lookup(m, k)[1]))
    ELSE Store(m, k, v)

\* the body of Update's closure: the map after it, given the field's current value
UpdateStore(m, g, k, v) ==
    IF Lookup(m, k)[2] THEN Store(m, k, CallUpdateValueFunc(g, Lookup(m, k)[1], v))
    ELSE Store(m, k, v)

\* the custom function of ExecuteFunc's documentation: the value it writes
\* after reading <<v, ok>>
IncrValue(l) == IF l[2] THEN l[1] + 1 ELSE 1

\* custom functions handed to ExecuteFunc: "incr" is the documented example,
\* "fail" does the same and returns a non-nil error, "reenter" calls Set on
\* the same map from inside the function
CustomFuncs == {"incr", "fail", "reenter"}

EmptyMap == [j \in {} |-> Nil]
NoOp == [kind |-> "none", key |-> 0, val |-> Nil, fn |-> "none"]
NoLocal == <<Nil, FALSE>>

VARIABLES
    Map,              \* this.Map
    UpdateValueFunc,  \* this.UpdateValueFunc
    wg,               \* this.wg: the WaitGroup's counter
    pc,               \* where each caller is inside its call
    op,               \* the current (or last) call of each caller
    clo,              \* the closure the backend holds: the key, value and f it captured
    unit,             \* where the closure of each caller is inside the backend
    loc,              \* the closure's local variables (value, ok)
    res,              \* what each caller has received from c1 and c2
    exited,           \* os.Exit(1) was called
    stderr,           \* lines written to os.Stderr
    spc,              \* the thread calling Stop
    nops,             \* calls issued so far
    \* history variables
    sufCalled,        \* SetUpdateValueFunc has been called
    fcalls,           \* invocations of this.UpdateValueFunc so far
    nUpd,             \* Update(k, 1) calls issued for each key
    onlyAdd,          \* only Get and Update(k, 1) issued, all with "add" installed
    written,          \* keys a closure has written
    setDone,          \* per key: value of a returned Set not overwritten since
    expect,           \* per caller: what its pending Get is bound to see
    countedAtStop,    \* calls that had done wg.Add(1) when Stop was last called
    pendingAtStop,    \* those of countedAtStop whose closure has not touched the map yet
    quiesced,         \* last Stop was called with no call in flight, none issued since
    stopEver,         \* some Stop call has returned
    afterStop,        \* callers whose current call was issued after a Stop returned
    recvFunc,         \* per caller: this.UpdateValueFunc when the backend received its closure
    issued,           \* per caller: calls it has issued
    applied           \* per caller: closures of its calls that have done their map step

prog == <<Map, UpdateValueFunc, wg, pc, op, clo, unit, loc, res, exited, stderr, spc, nops>>
hist == <<sufCalled, fcalls, nUpd, onlyAdd, written, setDone, expect, countedAtStop,
          pendingAtStop, quiesced, stopEver, afterStop, recvFunc, issued, applied>>
vars == <<prog, hist>>

\* expect[c] when the key had never been written at the call
Absent == Nil - 1

\* ------------------------------------------------------ construction
NewParallelMap ==
    /\ Map = EmptyMap
    /\ UpdateValueFunc = "default"
    /\ wg = 0
    /\ pc = [c \in Callers |-> "idle"]
    /\ op = [c \in Callers |-> NoOp]
    /\ clo = [c \in Callers |-> NoOp]
    /\ unit = [c \in Callers |-> "none"]
    /\ loc = [c \in Callers |-> NoLocal]
    /\ res = [c \in Callers |-> NoLocal]
    /\ exited = FALSE
    /\ stderr = 0
    /\ spc = "idle"
    /\ nops = 0

Init ==
    /\ NewParallelMap
    /\ sufCalled = FALSE
    /\ fcalls = 0
    /\ nUpd = [k \in Keys |-> 0]
    /\ onlyAdd = TRUE
    /\ written = {}
    /\ setDone = [k \in Keys |-> Nil]
    /\ expect = [c \in Callers |-> Nil]
    /\ countedAtStop = {}
    /\ pendingAtStop = {}
    /\ quiesced = FALSE
    /\ stopEver = FALSE
    /\ afterStop = {}
    /\ recvFunc = [c \in Callers |-> "none"]
    /\ issued = [c \in Callers |-> 0]
    /\ applied = [c \in Callers |-> 0]

\* ------------------------------------------------------------ callers
\* faulty variant: a call hands its closure over without waiting for the
\* acknowledgement, so the caller goes on to its next call
CanCall_async(c) == ~exited /\ nops < MaxOps

\* a caller may start a call: it is not inside one and the process runs
CanCall(c) == ~exited /\ pc[c] = "idle" /\ nops < MaxOps

\* the part of every call up to the blocking send on this.Op: this.wg.Add(1)
Issue(c, o) ==
    /\ wg' = wg + 1
    /\ pc' = [pc EXCEPT ![c] = "send"]
    /\ op' = [op EXCEPT ![c] = o]
    /\ res' = [res EXCEPT ![c] = NoLocal]
    /\ nops' = nops + 1
    /\ quiesced' = FALSE
    /\ UNCHANGED <<Map, UpdateValueFunc, clo, unit, loc, exited, stderr, spc>>
    /\ afterStop' = IF stopEver THEN afterStop \cup {c} ELSE afterStop \ {c}
    /\ issued' = [issued EXCEPT ![c] = @ + 1]
    /\ UNCHANGED <<sufCalled, fcalls, written, setDone, countedAtStop, pendingAtStop, stopEver>>
    /\ UNCHANGED <<recvFunc, applied>>

Get(c, k) ==
    /\ CanCall(c)
    /\ Issue(c, [kind |-> "Get", key |-> k, val |-> Nil, fn |-> "none"])
    /\ expect' = [expect EXCEPT ![c] = IF k \in written THEN setDone[k] ELSE Absent]
    /\ UNCHANGED <<nUpd, onlyAdd>>

\* faulty variant: Set writes the map on the calling goroutine before it hands
\* the closure to the backend
Set_direct(c, k, v) ==
    /\ CanCall(c)
    /\ Map' = Store(Map, k, v)
    /\ wg' = wg + 1
    /\ pc' = [pc EXCEPT ![c] = "send"]
    /\ op' = [op EXCEPT ![c] = [kind |-> "Set", key |-> k, val |-> v, fn |-> "none"]]
    /\ res' = [res EXCEPT ![c] = NoLocal]
    /\ nops' = nops + 1
    /\ quiesced' = FALSE
    /\ afterStop' = IF stopEver THEN afterStop \cup {c} ELSE afterStop \ {c}
    /\ issued' = [issued EXCEPT ![c] = @ + 1]
    /\ onlyAdd' = FALSE
    /\ UNCHANGED <<UpdateValueFunc, clo, unit, loc, exited, stderr, spc>>
    /\ UNCHANGED <<sufCalled, fcalls, written, setDone, countedAtStop, pendingAtStop, stopEver>>
    /\ UNCHANGED <<recvFunc, applied, nUpd, expect>>

Set(c, k, v) ==
    /\ CanCall(c)
    /\ Issue(c, [kind |-> "Set", key |-> k, val |-> v, fn |-> "none"])
    /\ onlyAdd' = FALSE
    /\ UNCHANGED <<nUpd, expect>>

Update(c, k, v) ==
    /\ CanCall(c)
    /\ Issue(c, [kind |-> "Update", key |-> k, val |-> v, fn |-> "none"])
    /\ IF v = 1 /\ UpdateValueFunc = "add"
       THEN nUpd' = [nUpd EXCEPT ![k] = @ + 1] /\ UNCHANGED onlyAdd
       ELSE onlyAdd' = FALSE /\ UNCHANGED nUpd
    /\ UNCHANGED expect

ExecuteFunc(c, k, f) ==
    /\ CanCall(c)
    /\ Issue(c, [kind |-> "ExecuteFunc", key |-> k, val |-> Nil, fn |-> f])
    /\ onlyAdd' = FALSE
    /\ UNCHANGED <<nUpd, expect>>

\* this.UpdateValueFunc = f, by whichever thread calls it
SetUpdateValueFunc(g) ==
    /\ ~exited
    /\ UpdateValueFunc' = g
    /\ sufCalled' = TRUE
    /\ onlyAdd' = (onlyAdd /\ (g = "add" \/ \A k \in Keys : nUpd[k] = 0))
    /\ UNCHANGED <<Map, wg, pc, op, clo, unit, loc, res, exited, stderr, spc, nops>>
    /\ UNCHANGED <<fcalls, nUpd, written, setDone, expect, countedAtStop, pendingAtStop, quiesced, stopEver, afterStop, recvFunc, issued, applied>>

\* ------------------------------------------------------------ backend
\* faulty variant: the backend starts each closure with a go statement and receives on
BackendIdle_go == TRUE

\* faulty variant: the backend leaves its loop once a Stop call has returned
BackendIdle_stopped == (\A c \in Callers : unit[c] = "none") /\ ~stopEver

\* the backend is back at its select: no closure is being run
BackendIdle == \A c \in Callers : unit[c] = "none"

\* calls that have done wg.Add(1) and whose closure has not touched the map yet
NotApplied(c) == pc[c] = "send" \/ unit[c] \in {"run", "fwrite", "blocked"}

\* case f = <-this.Op, meeting caller c's send
backend(c) ==
    /\ ~exited
    /\ BackendIdle
    /\ pc[c] = "send"
    /\ pc' = [pc EXCEPT ![c] = "wait"]
    /\ unit' = [unit EXCEPT ![c] = "run"]
    /\ clo' = [clo EXCEPT ![c] = op[c]]
    /\ recvFunc' = [recvFunc EXCEPT ![c] = UpdateValueFunc]
    /\ UNCHANGED <<Map, UpdateValueFunc, wg, op, loc, res, exited, stderr, spc, nops>>
    /\ UNCHANGED <<sufCalled, fcalls, nUpd, onlyAdd, written, setDone, expect, countedAtStop>>
    /\ UNCHANGED <<pendingAtStop, quiesced, stopEver, afterStop, issued, applied>>

\* history: closure of caller c has written key k
NoteWrite(c, k) ==
    /\ written' = written \cup {k}
    /\ setDone' = [setDone EXCEPT ![k] = Nil]
    /\ expect' = [d \in Callers |->
                    IF d # c /\ NotApplied(d) /\ op[d].kind = "Get" /\ op[d].key = k
                    THEN Nil ELSE expect[d]]
    /\ pendingAtStop' = pendingAtStop \ {c}
    /\ applied' = [applied EXCEPT ![c] = @ + 1]

\* faulty variant: the lookup of a missing key inserts the zero value
GetLookup_insert(c) ==
    /\ ~exited
    /\ unit[c] = "run" /\ clo[c].kind = "Get"
    /\ loc' = [loc EXCEPT ![c] = Lookup(Map, clo[c].key)]
    /\ Map' = IF clo[c].key \in DOMAIN Map THEN Map ELSE Store(Map, clo[c].key, Nil)
    /\ unit' = [unit EXCEPT ![c] = "c1"]
    /\ pendingAtStop' = pendingAtStop \ {c}
    /\ applied' = [applied EXCEPT ![c] = @ + 1]
    /\ UNCHANGED <<UpdateValueFunc, wg, pc, op, clo, res, exited, stderr, spc, nops>>
    /\ UNCHANGED <<sufCalled, fcalls, nUpd, onlyAdd, written, setDone, expect, countedAtStop, quiesced, stopEver, afterStop, recvFunc, issued>>

\* Get's closure: value, ok := this.Map[key]
GetLookup(c) ==
    /\ ~exited
    /\ unit[c] = "run" /\ clo[c].kind = "Get"
    /\ loc' = [loc EXCEPT ![c] = Lookup(Map, clo[c].key)]
    /\ unit' = [unit EXCEPT ![c] = "c1"]
    /\ pendingAtStop' = pendingAtStop \ {c}
    /\ applied' = [applied EXCEPT ![c] = @ + 1]
    /\ UNCHANGED <<Map, UpdateValueFunc, wg, pc, op, clo, res, exited, stderr, spc, nops>>
    /\ UNCHANGED <<sufCalled, fcalls, nUpd, onlyAdd, written, setDone, expect, countedAtStop, quiesced, stopEver, afterStop, recvFunc, issued>>

\* faulty variant: the closure sends ok on c2 first, while the caller receives
\* from c1 first
GetSendValue_c2first(c) ==
    /\ ~exited
    /\ unit[c] = "c1" /\ pc[c] = "wait2"
    /\ res' = [res EXCEPT ![c] = <<@[1], loc[c][2]>>]
    /\ pc' = [pc EXCEPT ![c] = "wait"]
    /\ unit' = [unit EXCEPT ![c] = "c2"]
    /\ UNCHANGED <<Map, UpdateValueFunc, wg, op, clo, loc, exited, stderr, spc, nops>>
    /\ UNCHANGED hist

\* Get's closure: c1 <- value, meeting the caller's <-c1
GetSendValue(c) ==
    /\ ~exited
    /\ unit[c] = "c1" /\ pc[c] = "wait"
    /\ res' = [res EXCEPT ![c] = <<loc[c][1], @[2]>>]
    /\ pc' = [pc EXCEPT ![c] = "wait2"]
    /\ unit' = [unit EXCEPT ![c] = "c2"]
    /\ UNCHANGED <<Map, UpdateValueFunc, wg, op, clo, loc, exited, stderr, spc, nops>>
    /\ UNCHANGED hist

\* Get's closure: c2 <- ok, meeting the caller's <-c2; Get returns
GetSendOk(c) ==
    /\ ~exited
    /\ unit[c] = "c2" /\ pc[c] = "wait2"
    /\ res' = [res EXCEPT ![c] = <<@[1], loc[c][2]>>]
    /\ pc' = [pc EXCEPT ![c] = "idle"]
    /\ unit' = [unit EXCEPT ![c] = "done"]
    /\ UNCHANGED <<Map, UpdateValueFunc, wg, op, clo, loc, exited, stderr, spc, nops>>
    /\ UNCHANGED hist

\* Set's closure: this.Map[key] = value
SetStore(c) ==
    /\ ~exited
    /\ unit[c] = "run" /\ clo[c].kind = "Set"
    /\ Map' = Store(Map, clo[c].key, clo[c].val)
    /\ unit' = [unit EXCEPT ![c] = "ack"]
    /\ NoteWrite(c, clo[c].key)
    /\ UNCHANGED <<UpdateValueFunc, wg, pc, op, clo, loc, res, exited, stderr, spc, nops>>
    /\ UNCHANGED <<sufCalled, fcalls, nUpd, onlyAdd, countedAtStop, quiesced, stopEver, afterStop, recvFunc, issued>>

\* Update's closure: the lookup, the call of this.UpdateValueFunc and the store
UpdateApply(c) ==
    /\ ~exited
    /\ unit[c] = "run" /\ clo[c].kind = "Update"
    /\ Map' = UpdateStore(Map, UpdateValueFunc, clo[c].key, clo[c].val)
    /\ fcalls' = IF Lookup(Map, clo[c].key)[2] THEN fcalls + 1 ELSE fcalls
    /\ unit' = [unit EXCEPT ![c] = "ack"]
    /\ NoteWrite(c, clo[c].key)
    /\ UNCHANGED <<UpdateValueFunc, wg, pc, op, clo, loc, res, exited, stderr, spc, nops>>
    /\ UNCHANGED <<sufCalled, nUpd, onlyAdd, countedAtStop, quiesced, stopEver, afterStop, recvFunc, issued>>

\* ExecuteFunc's closure, err := f(): the custom function reads its key
FuncRead(c) ==
    /\ ~exited
    /\ unit[c] = "run" /\ clo[c].kind = "ExecuteFunc" /\ clo[c].fn \in {"incr", "fail"}
    /\ loc' = [loc EXCEPT ![c] = Lookup(Map, clo[c].key)]
    /\ unit' = [unit EXCEPT ![c] = "fwrite"]
    /\ UNCHANGED <<Map, UpdateValueFunc, wg, pc, op, clo, res, exited, stderr, spc, nops>>
    /\ UNCHANGED hist

\* faulty variant: the closure returns the custom function's error at once,
\* before c <- true and wg.Done()
FuncWrite_earlyReturn(c) ==
    /\ ~exited
    /\ unit[c] = "fwrite"
    /\ Map' = Store(Map, clo[c].key, IncrValue(loc[c]))
    /\ unit' = [unit EXCEPT ![c] = IF clo[c].fn = "fail" THEN "ret" ELSE "ack"]
    /\ NoteWrite(c, clo[c].key)
    /\ UNCHANGED <<UpdateValueFunc, wg, pc, op, clo, loc, res, exited, stderr, spc, nops>>
    /\ UNCHANGED <<sufCalled, fcalls, nUpd, onlyAdd, countedAtStop, quiesced, stopEver, afterStop, recvFunc, issued>>

\* ... and writes it
FuncWrite(c) ==
    /\ ~exited
    /\ unit[c] = "fwrite"
    /\ Map' = Store(Map, clo[c].key, IncrValue(loc[c]))
    /\ unit' = [unit EXCEPT ![c] = "ack"]
    /\ NoteWrite(c, clo[c].key)
    /\ UNCHANGED <<UpdateValueFunc, wg, pc, op, clo, loc, res, exited, stderr, spc, nops>>
    /\ UNCHANGED <<sufCalled, fcalls, nUpd, onlyAdd, countedAtStop, quiesced, stopEver, afterStop, recvFunc, issued>>

\* faulty variant: this.Op is buffered, so the inner send completes and the
\* custom function returns
FuncReenter_buffered(c) ==
    /\ ~exited
    /\ unit[c] = "run" /\ clo[c].kind = "ExecuteFunc" /\ clo[c].fn = "reenter"
    /\ wg' = wg + 1
    /\ unit' = [unit EXCEPT ![c] = "ack"]
    /\ UNCHANGED <<Map, UpdateValueFunc, pc, op, clo, loc, res, exited, stderr, spc, nops>>
    /\ UNCHANGED hist

\* a custom function that calls this.Set: wg.Add(1), then the send on this.Op
\* that only the backend itself could receive
FuncReenter(c) ==
    /\ ~exited
    /\ unit[c] = "run" /\ clo[c].kind = "ExecuteFunc" /\ clo[c].fn = "reenter"
    /\ wg' = wg + 1
    /\ unit' = [unit EXCEPT ![c] = "blocked"]
    /\ UNCHANGED <<Map, UpdateValueFunc, pc, op, clo, loc, res, exited, stderr, spc, nops>>
    /\ UNCHANGED hist

\* c <- true in the closures of Set, Update and ExecuteFunc; the call returns
Ack(c) ==
    /\ ~exited
    /\ unit[c] = "ack" /\ pc[c] = "wait"
    /\ pc' = [pc EXCEPT ![c] = "idle"]
    /\ unit' = [unit EXCEPT ![c] = "done"]
    /\ setDone' = IF clo[c].kind = "Set" THEN [setDone EXCEPT ![clo[c].key] = clo[c].val]
                  ELSE setDone
    /\ UNCHANGED <<Map, UpdateValueFunc, wg, op, clo, loc, res, exited, stderr, spc, nops>>
    /\ UNCHANGED <<sufCalled, fcalls, nUpd, onlyAdd, written, expect, countedAtStop, pendingAtStop, quiesced, stopEver, afterStop, recvFunc, issued, applied>>

\* this.wg.Done()
Done(c) ==
    /\ ~exited
    /\ unit[c] = "done"
    /\ wg' = wg - 1
    /\ unit' = [unit EXCEPT ![c] = "ret"]
    /\ UNCHANGED <<Map, UpdateValueFunc, pc, op, clo, loc, res, exited, stderr, spc, nops>>
    /\ UNCHANGED hist

\* faulty variant: the closure drops the custom function's error
ReturnsError_dropped(o) == FALSE

\* the error the closure returns: only ExecuteFunc's can be non-nil
ReturnsError(o) == o.kind = "ExecuteFunc" /\ o.fn = "fail"

\* faulty variant: the backend runs the closure it holds once more before it
\* receives the next one
Return_rerun(c) ==
    /\ ~exited
    /\ unit[c] = "ret"
    /\ unit' = [unit EXCEPT ![c] = "run"]
    /\ UNCHANGED <<Map, UpdateValueFunc, wg, pc, op, clo, loc, res, exited, stderr, spc, nops>>
    /\ UNCHANGED hist

\* the closure returns; err != nil: Fprintln(os.Stderr, ...) and os.Exit(1),
\* otherwise the for loop goes round
Return(c) ==
    /\ ~exited
    /\ unit[c] = "ret"
    /\ unit' = [unit EXCEPT ![c] = "none"]
    /\ loc' = [loc EXCEPT ![c] = NoLocal]
    /\ IF ReturnsError(clo[c])
       THEN exited' = TRUE /\ stderr' = stderr + 1 /\ UNCHANGED clo
       ELSE clo' = [clo EXCEPT ![c] = NoOp] /\ UNCHANGED <<exited, stderr>>
    /\ recvFunc' = [recvFunc EXCEPT ![c] = "none"]
    /\ UNCHANGED <<Map, UpdateValueFunc, wg, pc, op, res, spc, nops>>
    /\ UNCHANGED <<sufCalled, fcalls, nUpd, onlyAdd, written, setDone, expect, countedAtStop>>
    /\ UNCHANGED <<pendingAtStop, quiesced, stopEver, afterStop, issued, applied>>

\* --------------------------------------------------------------- Stop
\* faulty variant: Wait returns one Done early
WaitReturns_early(n) == n <= 1

\* this.wg.Wait() returns when the counter is zero
WaitReturns(n) == n = 0

StopCall ==
    /\ ~exited
    /\ spc \in {"idle", "returned"}
    /\ spc' = "wait"
    /\ countedAtStop' = {c \in Callers : NotApplied(c)}
    /\ pendingAtStop' = {c \in Callers : NotApplied(c)}
    /\ quiesced' = (\A c \in Callers : pc[c] = "idle")
    /\ UNCHANGED <<Map, UpdateValueFunc, wg, pc, op, clo, unit, loc, res, exited, stderr, nops>>
    /\ UNCHANGED <<sufCalled, fcalls, nUpd, onlyAdd, written, setDone, expect, stopEver, afterStop, recvFunc, issued, applied>>

StopReturn ==
    /\ ~exited
    /\ spc = "wait"
    /\ WaitReturns(wg)
    /\ spc' = "returned"
    /\ stopEver' = TRUE
    /\ UNCHANGED <<Map, UpdateValueFunc, wg, pc, op, clo, unit, loc, res, exited, stderr, nops>>
    /\ UNCHANGED <<sufCalled, fcalls, nUpd, onlyAdd, written, setDone, expect, countedAtStop, pendingAtStop, quiesced, afterStop, recvFunc, issued, applied>>

\* ------------------------------------------------------ specification
Next ==
    \/ \E c \in Callers, k \in Keys : Get(c, k)
    \/ \E c \in Callers, k \in Keys, v \in Values : Set(c, k, v)
    \/ \E c \in Callers, k \in Keys, v \in Values : Update(c, k, v)
    \/ \E c \in Callers, k \in Keys, f \in CustomFuncs : ExecuteFunc(c, k, f)
    \/ \E g \in UpdateValueFuncs : SetUpdateValueFunc(g)
    \/ \E c \in Callers : backend(c)
    \/ \E c \in Callers : GetLookup(c)
    \/ \E c \in Callers : GetSendValue(c)
    \/ \E c \in Callers : GetSendOk(c)
    \/ \E c \in Callers : SetStore(c)
    \/ \E c \in Callers : UpdateApply(c)
    \/ \E c \in Callers : FuncRead(c)
    \/ \E c \in Callers : FuncWrite(c)
    \/ \E c \in Callers : FuncReenter(c)
    \/ \E c \in Callers : Ack(c)
    \/ \E c \in Callers : Done(c)
    \/ \E c \in Callers : Return(c)
    \/ StopCall
    \/ StopReturn

Spec == Init /\ [][Next]_vars

\* the same program with custom functions that return nil and do not call
\* back into the map
NextLive ==
    \/ \E c \in Callers, k \in Keys : Get(c, k)
    \/ \E c \in Callers, k \in Keys, v \in Values : Set(c, k, v)
    \/ \E c \in Callers, k \in Keys, v \in Values : Update(c, k, v)
    \/ \E c \in Callers, k \in Keys : ExecuteFunc(c, k, "incr")
    \/ \E g \in UpdateValueFuncs : SetUpdateValueFunc(g)
    \/ \E c \in Callers : backend(c)
    \/ \E c \in Callers : GetLookup(c)
    \/ \E c \in Callers : GetSendValue(c)
    \/ \E c \in Callers : GetSendOk(c)
    \/ \E c \in Callers : SetStore(c)
    \/ \E c \in Callers : UpdateApply(c)
    \/ \E c \in Callers : FuncRead(c)
    \/ \E c \in Callers : FuncWrite(c)
    \/ \E c \in Callers : Ack(c)
    \/ \E c \in Callers : Done(c)
    \/ \E c \in Callers : Return(c)
    \/ StopCall
    \/ StopReturn

\* the steps of the backend goroutine, the closures it runs included
BackendStep ==
    \E c \in Callers :
        \/ backend(c) \/ GetLookup(c) \/ GetSendValue(c) \/ GetSendOk(c)
        \/ SetStore(c) \/ UpdateApply(c) \/ FuncRead(c) \/ FuncWrite(c)
        \/ Ack(c) \/ Done(c) \/ Return(c)

\* the Go scheduler runs a goroutine that can take a step
LiveSpec == Init /\ [][NextLive]_vars /\ WF_vars(BackendStep) /\ WF_vars(StopReturn)

\* ------------------------------------------------------------- claims
\* caller c has returned from a Get
GetReturned(c) == op[c].kind = "Get" /\ pc[c] = "idle"

\* the closure of caller c's call of the given kind has just done its map step
Applies(c, kind) == unit[c] = "run" /\ op[c].kind = kind /\ unit'[c] # "run"

\* C1: with the combinator set to addition before any Update, only Update(k, 1)
\* (and Get) calls issued, and Stop called after all of them returned and now
\* returned itself, every key holds exactly the number of Updates issued for it
\* and no other key exists.
C1_NoLostUpdates ==
    (onlyAdd /\ quiesced /\ spc = "returned") =>
        \A k \in Keys :
            Lookup(Map, k) = IF nUpd[k] = 0 THEN <<Nil, FALSE>> ELSE <<nUpd[k], TRUE>>

C1_Witness ==
    /\ onlyAdd /\ quiesced /\ spc = "returned"
    /\ \A c \in Callers : op[c].kind = "Update"
    /\ \E k \in Keys : nUpd[k] = NCallers

\* C2: a Get(k) issued after Set(k, v) returned, with no write of k executed
\* by the backend in between, returns (v, true).
C2_SetGetRoundTrip ==
    \A c \in Callers :
        (GetReturned(c) /\ expect[c] \in Values) => res[c] = <<expect[c], TRUE>>

C2_Witness ==
    \E c \in Callers : GetReturned(c) /\ expect[c] = MaxVal /\ op[c].key = 1

\* C3: when the backend executes Update(k, v): k present with value old gives
\* Combinator(old, v); k absent gives v with the combinator not invoked; no
\* other entry changes.
C3_UpdateResult ==
    [][\A c \in Callers :
          Applies(c, "Update") =>
              LET k == op[c].key
                  v == op[c].val
              IN  /\ DOMAIN Map' = DOMAIN Map \cup {k}
                  /\ \A j \in DOMAIN Map \ {k} : Map'[j] = Map[j]
                  /\ k \in DOMAIN Map =>
                        /\ Map'[k] = CallUpdateValueFunc(UpdateValueFunc, Map[k], v)
                        /\ fcalls' = fcalls + 1
                  /\ k \notin DOMAIN Map =>
                        /\ Map'[k] = v
                        /\ fcalls' = fcalls]_vars

C3_Witness ==
    \E c \in Callers :
        /\ op[c].kind = "Update" /\ unit[c] = "ack"
        /\ fcalls = 1
        /\ Lookup(Map, op[c].key) = <<MaxVal + 1, TRUE>>

\* C4: while SetUpdateValueFunc has never been called, executing Update(k, v)
\* leaves the map as executing Set(k, v) would, k present or absent.
C4_DefaultIsSet ==
    [][\A c \in Callers :
          (~sufCalled /\ Applies(c, "Update")) =>
              /\ DOMAIN Map' = DOMAIN Map \cup {op[c].key}
              /\ \A j \in DOMAIN Map' :
                    Map'[j] = IF j = op[c].key THEN op[c].val ELSE Map[j]]_vars

C4_Witness ==
    \E c \in Callers :
        /\ ~sufCalled
        /\ op[c].kind = "Update" /\ unit[c] = "ack"
        /\ fcalls = 1
        /\ \E d \in Callers :
              op[d].kind = "Set" /\ op[d].key = op[c].key /\ op[d].val # op[c].val

\* C5: a Get(k) whose closure runs before any closure has written k returns
\* (nil, false).
C5_GetAbsent ==
    \A c \in Callers :
        (GetReturned(c) /\ expect[c] = Absent) => res[c] = <<Nil, FALSE>>

C5_Witness ==
    \E c \in Callers :
        GetReturned(c) /\ expect[c] = Absent /\ DOMAIN Map # {} /\ op[c].key \notin DOMAIN Map

\* C6: when Stop has returned, every call that had done wg.Add(1) before Stop
\* was called has been applied to the map.
C6_DrainBarrier == spc = "returned" => pendingAtStop = {}

C6_Witness == spc = "returned" /\ countedAtStop = Callers

C8_StopStopsBackend ==
    [][stopEver => \A c \in Callers : ~(unit[c] = "none" /\ unit'[c] = "run")]_vars

\* C9: at most one closure is being executed at any time, and between the read
\* and the write of a custom function its key holds what the function read.
C9_Atomicity ==
    /\ Cardinality({c \in Callers : unit[c] # "none"}) <= 1
    /\ \A c \in Callers : unit[c] = "fwrite" => Lookup(Map, op[c].key) = loc[c]

C9_Witness ==
    \E c, d \in Callers :
        /\ unit[c] = "fwrite"
        /\ d # c /\ pc[d] = "send" /\ op[d].kind = "Set" /\ op[d].key = op[c].key

\* caller c's custom function returns a non-nil error
Fails(c) == clo[c].kind = "ExecuteFunc" /\ clo[c].fn = "fail"

\* C10: when the closure of a failing custom function returns, the error is
\* reported and the process exits; after the exit no closure runs and the
\* map never changes; nothing but such a closure makes the process exit.
C10_FatalOnFailure ==
    [][/\ \A c \in Callers :
             (Fails(c) /\ unit[c] = "ret" /\ unit'[c] # "ret") =>
                 (exited' /\ stderr' = stderr + 1)
       /\ exited => (exited' /\ UNCHANGED <<Map, unit, pc>>)
       /\ (~exited /\ exited') => \E c \in Callers : Fails(c) /\ unit[c] = "ret"
       /\ \A c \in Callers :
             (~Fails(c) /\ unit[c] = "ret" /\ unit'[c] # "ret") => ~exited']_vars

C10_Witness ==
    /\ exited /\ stderr = 1
    /\ \E c, d \in Callers : Fails(c) /\ clo[c].key \in DOMAIN Map /\ pc[d] = "send"

\* C11: an Update closure the backend has received before a call of
\* SetUpdateValueFunc is executed with the function that was installed when
\* it was received.
C11_NotRetroactive ==
    [][\A c \in Callers :
          (Applies(c, "Update") /\ op[c].key \in DOMAIN Map) =>
              Map'[op[c].key] = CallUpdateValueFunc(recvFunc[c], Map[op[c].key], op[c].val)]_vars

C13_GetNoSideEffect ==
    [][\A c \in Callers :
          (clo[c].kind = "Get" /\ unit'[c] # unit[c]) =>
              UNCHANGED <<Map, UpdateValueFunc>>]_vars

C13_Witness ==
    \E c \in Callers :
        /\ op[c].kind = "Get" /\ unit[c] = "c1"
        /\ DOMAIN Map # {} /\ op[c].key \notin DOMAIN Map
\* C14: every write of this.UpdateValueFunc happens inside the backend's
\* execution of a closure; no calling goroutine writes it, in particular not
\* while the backend is executing an Update.
C14_CombinatorActorOnly ==
    [][UpdateValueFunc' # UpdateValueFunc =>
          \E c \in Callers : unit[c] # "none" /\ unit'[c] # unit[c]]_vars

\* C15: the map is read and written only by steps of a closure the backend is
\* executing, one closure at a time; no step of a caller touches it.
C15_MapActorOnly ==
    [][(Map' # Map \/ loc' # loc) =>
          \E c \in Callers :
              /\ unit[c] # "none" /\ unit'[c] # unit[c] /\ pc'[c] = pc[c]
              /\ \A d \in Callers \ {c} : unit[d] = "none"]_vars

C15_Witness ==
    \E c, d \in Callers :
        /\ c # d /\ unit[c] = "ack" /\ op[c].kind = "Set" /\ pc[d] = "send"
        /\ op[d].kind = "Update" /\ op[d].key = op[c].key

\* C16: the closure of every call is executed at most once, and a call has
\* returned only when its closure has done its lookup or write, exactly once.
C16_ExactlyOnce ==
    \A c \in Callers :
        /\ applied[c] <= issued[c]
        /\ pc[c] = "idle" => applied[c] = issued[c]
        /\ pc[c] # "idle" => applied[c] \in {issued[c] - 1, issued[c]}
        /\ unit[c] \in {"c1", "c2", "ack"} => applied[c] = issued[c]

C16_Witness ==
    \E c, d \in Callers :
        /\ c # d /\ pc[c] = "idle" /\ pc[d] = "idle"
        /\ issued[c] = 1 /\ applied[c] = 1 /\ issued[d] = 1 /\ applied[d] = 1
        /\ op[c].kind = "Set" /\ op[d].kind = "ExecuteFunc"

\* C17: no step removes an entry: the key set of the map only grows.
C17_NeverRemoved == [][DOMAIN Map \subseteq DOMAIN Map']_vars

C17_Witness ==
    /\ DOMAIN Map = Keys
    /\ \A c \in Callers : op[c].kind \in {"Set", "Update"} /\ pc[c] = "idle"

\* C18: where no custom function fails or calls back into the map, under a
\* fair scheduler every call issued returns, Get's two-step reply included,
\* and a waiting Stop returns once the callers stop issuing calls.
C18_Liveness ==
    /\ \A c \in Callers : (pc[c] # "idle") ~> (pc[c] = "idle")
    /\ (spc = "wait") ~> (spc = "returned")

C18_Witness ==
    /\ spc = "returned" /\ countedAtStop = Callers
    /\ \A c \in Callers : pc[c] = "idle" /\ unit[c] = "none"
    /\ \E c \in Callers : op[c].kind = "Get" /\ res[c][2]

\* the custom function of caller c's ExecuteFunc has made its call into the map
Reentered(c) ==
    clo[c].kind = "ExecuteFunc" /\ clo[c].fn = "reenter" /\ unit[c] \notin {"none", "run"}

\* C19: once a custom function has called Get, Set, Update or ExecuteFunc on
\* the same map, the backend is blocked for good: no closure takes a step,
\* the map does not change, no call in flight returns and Stop does not
\* return.
C19_ReentrancyDeadlock ==
    [][(\E c \in Callers : Reentered(c)) =>
          /\ UNCHANGED <<Map, unit, exited>>
          /\ wg > 0 /\ wg' >= wg
          /\ \A d \in Callers : pc[d] # "idle" => pc'[d] = pc[d]
          /\ spc' = "returned" => spc = "returned"]_vars

C19_Witness ==
    \E c, d \in Callers :
        /\ Reentered(c) /\ pc[c] = "wait"
        /\ d # c /\ pc[d] = "send" /\ spc = "wait"

\* C20: when the process exits on a custom function's error, the caller of
\* that ExecuteFunc has already been acknowledged and the counter already
\* decremented, and the function's write is still in the map; so the caller
\* (and a concurrent Stop) can have returned while the process still runs.
C20_AckBeforeFailure ==
    [][(~exited /\ exited') =>
          \E c \in Callers :
              /\ Fails(c) /\ unit[c] = "ret" /\ pc[c] # "wait"
              /\ wg = Cardinality({d \in Callers : pc[d] # "idle"})
              /\ Lookup(Map', clo[c].key)[2]]_vars

C20_Witness ==
    \E c \in Callers :
        /\ Fails(c) /\ pc[c] = "idle" /\ unit[c] = "ret"
        /\ ~exited
        /\ spc = "returned" /\ c \in countedAtStop
        /\ Lookup(Map, clo[c].key) = <<1, TRUE>>

====
